---- MODULE Spec2Model ----
(***************************************************************************)
(* Model of amethyst's `Pausable` system wrapper (src/system_extra.rs)     *)
(* together with the doc test that drives it (AddNumber, State, the        *)
(* dispatcher calls).  The dispatcher and the resource store live in the   *)
(* `shred` crate; their scheduling rule is taken from the specification.   *)
(***************************************************************************)
EXTENDS Integers, Sequences, FiniteSets, TLC

\* ---------------------------------------------------------------- bounds
\* number of dispatches (ticks) the application performs
MaxTicks == 3
\* largest value of the counter resource: stands for u32::MAX, scaled down
WordMax == 7
\* longest SystemData tuple of an arbitrary user system
MaxAccess == 2

\* ------------------------------------------------------------ the types
\* the control type V: any Send + Sync + Default + Eq type.  The doc test's
\* enum, with one more variant so that two guards do not exhaust the type.
StateValues == {"Disabled", "Enabled", "Suspended"}
\* impl Default for State
StateDefault == "Disabled"
\* resource ids: the control resource, the u32 counter, one further resource
Resources == {"State", "u32", "R"}

Read(r) == [acc |-> "Read", id |-> r]
Write(r) == [acc |-> "Write", id |-> r]
Accessors == {Read(r) : r \in Resources} \cup {Write(r) : r \in Resources}
AccessSeqs == UNION {[1..n -> Accessors] : n \in 0..MaxAccess}

\* struct AddNumber(u32)
AddNumber(n) == [kind |-> "AddNumber", n |-> n]
\* an arbitrary user system, known only by its declared SystemData
Unit(data) == [kind |-> "Unit", data |-> data]
\* the designated updater of the control resource
StateWriter == Unit(<<Write("State")>>)
NoSystem == [kind |-> "None"]

\* SystemExtra::pausable: Pausable { system: self, value }, V the type of value
pausable(system, V, value) ==
  [kind |-> "Pausable", system |-> system, V |-> V, value |-> value]

VARIABLES
  res,            \* world.res: the resource store
  systems,        \* the systems registered in the dispatcher, in order
  overflowChecks, \* build profile: arithmetic overflow panics (debug) or wraps
  pc,             \* per system: "idle", "ready", "running", "mid", "done"
  dispatching,    \* a dispatch call is in progress
  panicked,       \* a panic unwound out of dispatch
  ticks,          \* completed dispatches
  tickStart,      \* the store when the current dispatch began
  lastCommit,     \* control value committed by the previous tick or by a finished writer
  trace,          \* application-level steps taken so far, along the doc test
  execs,          \* per system: calls the wrapper made to its wrapped system
  matches,        \* per system: invocations that found control value = guard
  inv,            \* per system: what its invocation in this tick saw and did
  u1, u2,         \* signature model: two arbitrary user systems
  ctl,            \* signature model: the control resource type
  w1, w2,         \* signature model: the wrappers built from u1, u2
  sigTicks        \* signature model: dispatches since construction

vars == <<res, systems, overflowChecks, pc, dispatching, panicked, ticks,
          tickStart, lastCommit, trace, execs, matches, inv,
          u1, u2, ctl, w1, w2, sigTicks>>
dynVars == <<res, systems, overflowChecks, pc, dispatching, panicked, ticks,
             tickStart, lastCommit, trace, execs, matches, inv>>
sigVars == <<u1, u2, ctl, w1, w2, sigTicks>>

\* ------------------------------------------------- declared signatures
RECURSIVE SystemData(_)
\* variant: the wrapper declares only the wrapped system's data
Pausable_SystemData_NoRead(self) == SystemData(self.system)
\* variant: the wrapper declares the control resource as written
Pausable_SystemData_Write(self) == <<Write(self.V)>> \o SystemData(self.system)
\* variant: the control read replaces the wrapped system's data
Pausable_SystemData_Only(self) == <<Read(self.V)>>

\* type SystemData = (Read<'s, V>, S::SystemData)
Pausable_SystemData(self) == <<Read(self.V)>> \o SystemData(self.system)

\* AddNumber: type SystemData = Write<'s, u32>
SystemData(sys) ==
  CASE sys.kind = "AddNumber" -> <<Write("u32")>>
    [] sys.kind = "Unit" -> sys.data
    [] sys.kind = "Pausable" -> Pausable_SystemData(sys)
    [] OTHER -> <<>>

Reads(sys) ==
  LET d == SystemData(sys) IN {d[i].id : i \in {j \in DOMAIN d : d[j].acc = "Read"}}
Writes(sys) ==
  LET d == SystemData(sys) IN {d[i].id : i \in {j \in DOMAIN d : d[j].acc = "Write"}}

\* two units may run concurrently iff neither writes a resource the other
\* reads or writes
Conflict(a, b) ==
  \/ Writes(a) \cap (Reads(b) \cup Writes(b)) # {}
  \/ Writes(b) \cap (Reads(a) \cup Writes(a)) # {}

\* ------------------------------------------------------------ execution
\* variant: the amount is assigned, not added
AddNumber_run_Assign(self, number) == [number |-> self.n, outcome |-> "ok"]
\* AddNumber::run: *number += self.0 on a u32
AddNumber_run(self, number) ==
  IF number + self.n > WordMax
  THEN IF overflowChecks
       THEN [number |-> number, outcome |-> "panic"]
       ELSE [number |-> (number + self.n) % (WordMax + 1), outcome |-> "ok"]
  ELSE [number |-> number + self.n, outcome |-> "ok"]

RECURSIVE System_run(_, _)
\* variant: the comparison is inverted
Pausable_run_Inverted(self, r) ==
  IF self.value = r[self.V]
  THEN [res |-> r, outcome |-> "ok", calls |-> 0]
  ELSE LET o == System_run(self.system, r)
       IN [res |-> o.res, outcome |-> o.outcome, calls |-> 1]
\* variant: the guard is not consulted
Pausable_run_Always(self, r) ==
  LET o == System_run(self.system, r)
  IN [res |-> o.res, outcome |-> o.outcome, calls |-> 1]
\* variant: a failure of the wrapped system is caught
Pausable_run_Swallow(self, r) ==
  IF self.value # r[self.V]
  THEN [res |-> r, outcome |-> "ok", calls |-> 0]
  ELSE LET o == System_run(self.system, r)
       IN [res |-> o.res, outcome |-> "ok", calls |-> 1]
\* variant: a failed run of the wrapped system is retried once
Pausable_run_Retry(self, r) ==
  IF self.value # r[self.V]
  THEN [res |-> r, outcome |-> "ok", calls |-> 0]
  ELSE LET o == System_run(self.system, r)
       IN IF o.outcome = "panic"
          THEN LET o2 == System_run(self.system, o.res)
               IN [res |-> o2.res, outcome |-> o2.outcome, calls |-> 2]
          ELSE [res |-> o.res, outcome |-> o.outcome, calls |-> 1]
\* variant: a paused wrapper resets the control resource to its default
Pausable_run_Resets(self, r) ==
  IF self.value # r[self.V]
  THEN [res |-> [r EXCEPT ![self.V] = StateDefault], outcome |-> "ok", calls |-> 0]
  ELSE LET o == System_run(self.system, r)
       IN [res |-> o.res, outcome |-> o.outcome, calls |-> 1]

\* Pausable::run: return when self.value != *data.0, else self.system.run(data.1)
Pausable_run(self, r) ==
  IF self.value # r[self.V]
  THEN [res |-> r, outcome |-> "ok", calls |-> 0]
  ELSE LET o == System_run(self.system, r)
       IN [res |-> o.res, outcome |-> o.outcome, calls |-> 1]

\* System::run, dispatched on the concrete system
System_run(self, r) ==
  CASE self.kind = "AddNumber" ->
         LET o == AddNumber_run(self, r["u32"])
         IN [res |-> [r EXCEPT !["u32"] = o.number], outcome |-> o.outcome, calls |-> 0]
    [] self.kind = "Pausable" -> Pausable_run(self, r)
    [] OTHER -> [res |-> r, outcome |-> "ok", calls |-> 0]

\* ---------------------------------------------------- dispatcher builds
\* .with(AddNumber(a), ..).with(AddNumber(b).pausable(guard), ..).build()
PairBuild(a, b, g) == <<AddNumber(a), pausable(AddNumber(b), "State", g)>>
\* the doc test: AddNumber(1) and AddNumber(2).pausable(guard)
DocBuild(g) == PairBuild(1, 2, g)
\* two wrappers on the same control resource
TwoBuild(g1, g2) ==
  <<pausable(AddNumber(1), "State", g1), pausable(AddNumber(2), "State", g2)>>
\* a wrapper next to the unit that updates the control resource
WriterBuild(g) == <<StateWriter, pausable(AddNumber(2), "State", g)>>
\* a wrapper around a unit without side effects
PureBuild(g) == <<pausable(AddNumber(0), "State", g)>>

Builds ==
  {DocBuild(g) : g \in StateValues}
  \cup {PairBuild(3, 1, g) : g \in StateValues}
  \cup {TwoBuild(g1, g2) : g1 \in {"Disabled", "Enabled"}, g2 \in StateValues}
  \cup {WriterBuild(g) : g \in StateValues}
  \cup {PureBuild(g) : g \in StateValues}

Sys == DOMAIN systems
NoInv == [ran |-> FALSE, eq |-> FALSE, ctl |-> "", commit |-> "", writerBusy |-> FALSE,
          outcome |-> "", expect |-> "", calls |-> 0, before |-> <<>>, after |-> <<>>]
Busy == {"running", "mid"}

\* the application's steps of the doc test, as far as a run follows them
ScenarioPrefixes ==
  {<<>>, <<"D">>, <<"D", "E">>, <<"D", "E", "D">>,
   <<"D", "R">>, <<"D", "R", "E">>, <<"D", "R", "E", "D">>}
Extend(e) ==
  IF Append(trace, e) \in ScenarioPrefixes THEN Append(trace, e) ELSE <<"off">>

\* values the application writes into the counter
NumberInputs == {0, WordMax - 1}

SigIdle == /\ u1 = NoSystem /\ u2 = NoSystem /\ ctl = "State"
           /\ w1 = NoSystem /\ w2 = NoSystem /\ sigTicks = 0

\* World::new, DispatcherBuilder ... build, dispatcher.setup: defaults installed
Init ==
  /\ systems \in Builds
  /\ overflowChecks \in BOOLEAN
  /\ res = [State |-> StateDefault, u32 |-> 0]
  /\ pc = [i \in DOMAIN systems |-> "idle"]
  /\ dispatching = FALSE
  /\ panicked = FALSE
  /\ ticks = 0
  /\ tickStart = res
  /\ lastCommit = StateDefault
  /\ trace = <<>>
  /\ execs = [i \in DOMAIN systems |-> 0]
  /\ matches = [i \in DOMAIN systems |-> 0]
  /\ inv = [i \in DOMAIN systems |-> NoInv]
  /\ SigIdle

\* *world.write_resource() = State::Enabled
SetState(v) ==
  /\ ~dispatching /\ ~panicked
  /\ res' = [res EXCEPT !["State"] = v]
  /\ trace' = Extend(IF v = "Enabled" THEN "E" ELSE "X")
  /\ UNCHANGED <<systems, overflowChecks, pc, dispatching, panicked, ticks,
                 tickStart, lastCommit, execs, matches, inv>>
  /\ UNCHANGED sigVars

\* *world.write_resource() = 0u32
SetNumber(c) ==
  /\ ~dispatching /\ ~panicked
  /\ res' = [res EXCEPT !["u32"] = c]
  /\ trace' = Extend(IF c = 0 THEN "R" ELSE "X")
  /\ UNCHANGED <<systems, overflowChecks, pc, dispatching, panicked, ticks,
                 tickStart, lastCommit, execs, matches, inv>>
  /\ UNCHANGED sigVars

\* dispatcher.dispatch(&mut world.res): every system becomes runnable
Dispatch ==
  /\ ~dispatching /\ ~panicked
  /\ ticks < MaxTicks
  /\ dispatching' = TRUE
  /\ pc' = [i \in Sys |-> "ready"]
  /\ tickStart' = res
  /\ lastCommit' = res["State"]
  /\ inv' = [i \in Sys |-> NoInv]
  /\ UNCHANGED <<res, systems, overflowChecks, panicked, ticks, trace, execs, matches>>
  /\ UNCHANGED sigVars

\* the dispatcher hands a system to a thread once nothing running conflicts
StartSystem(i) ==
  /\ dispatching /\ ~panicked
  /\ pc[i] = "ready"
  /\ \A j \in Sys : pc[j] \in Busy => ~Conflict(systems[i], systems[j])
  /\ pc' = [pc EXCEPT ![i] = "running"]
  /\ UNCHANGED <<res, systems, overflowChecks, dispatching, panicked, ticks,
                 tickStart, lastCommit, trace, execs, matches, inv>>
  /\ UNCHANGED sigVars

\* system.run(data) for AddNumber and for Pausable
RunSystem(i) ==
  /\ dispatching /\ ~panicked
  /\ pc[i] = "running"
  /\ systems[i].kind \in {"AddNumber", "Pausable"}
  /\ LET self == systems[i]
         o == System_run(self, res)
         wrapped == self.kind = "Pausable"
         eq == wrapped /\ self.value = res[self.V]
     IN /\ res' = o.res
        /\ panicked' = (o.outcome = "panic")
        /\ execs' = [execs EXCEPT ![i] = @ + o.calls]
        /\ matches' = [matches EXCEPT ![i] = @ + (IF eq THEN 1 ELSE 0)]
        /\ inv' = [inv EXCEPT ![i] =
                     [ran |-> TRUE, eq |-> eq,
                      ctl |-> IF wrapped THEN res[self.V] ELSE "",
                      commit |-> lastCommit,
                      writerBusy |-> \E j \in Sys : /\ j # i /\ pc[j] \in Busy
                                                    /\ "State" \in Writes(systems[j]),
                      outcome |-> o.outcome,
                      expect |-> IF wrapped THEN System_run(self.system, res).outcome ELSE "",
                      calls |-> o.calls, before |-> res, after |-> o.res]]
  /\ pc' = [pc EXCEPT ![i] = "done"]
  /\ UNCHANGED <<systems, overflowChecks, dispatching, ticks, tickStart, lastCommit, trace>>
  /\ UNCHANGED sigVars

\* the control updater's run: it assigns the control resource twice
WriterStep(i, v) ==
  /\ dispatching /\ ~panicked
  /\ systems[i].kind = "Unit"
  /\ pc[i] \in Busy
  /\ res' = [res EXCEPT !["State"] = v]
  /\ IF pc[i] = "running"
     THEN /\ pc' = [pc EXCEPT ![i] = "mid"]
          /\ UNCHANGED <<lastCommit, inv>>
     ELSE /\ pc' = [pc EXCEPT ![i] = "done"]
          /\ lastCommit' = v
          /\ inv' = [inv EXCEPT ![i] = [NoInv EXCEPT !.ran = TRUE, !.outcome = "ok",
                                                     !.before = res, !.after = res']]
  /\ UNCHANGED <<systems, overflowChecks, dispatching, panicked, ticks,
                 tickStart, trace, execs, matches>>
  /\ UNCHANGED sigVars

\* dispatch returns once every system ran
DispatchEnd ==
  /\ dispatching /\ ~panicked
  /\ \A i \in Sys : pc[i] = "done"
  /\ dispatching' = FALSE
  /\ ticks' = ticks + 1
  /\ pc' = [i \in Sys |-> "idle"]
  /\ trace' = Extend("D")
  /\ UNCHANGED <<res, systems, overflowChecks, panicked, tickStart, lastCommit,
                 execs, matches, inv>>
  /\ UNCHANGED sigVars

Next ==
  \/ \E v \in StateValues : SetState(v)
  \/ \E c \in NumberInputs : SetNumber(c)
  \/ Dispatch
  \/ \E i \in Sys : StartSystem(i)
  \/ \E i \in Sys : RunSystem(i)
  \/ \E i \in Sys, v \in StateValues : WriterStep(i, v)
  \/ DispatchEnd

Spec == Init /\ [][Next]_vars

\* ------------------------------------------------ the signature model
\* guard values of a control type
GuardValues(r) == IF r = "State" THEN {StateDefault, "Enabled"} ELSE {0}

DynIdle ==
  /\ systems = <<>> /\ overflowChecks = FALSE
  /\ res = [State |-> StateDefault, u32 |-> 0]
  /\ pc = <<>> /\ dispatching = FALSE /\ panicked = FALSE /\ ticks = 0
  /\ tickStart = res /\ lastCommit = StateDefault /\ trace = <<>>
  /\ execs = <<>> /\ matches = <<>> /\ inv = <<>>

\* two arbitrary user systems and a control type
InitSig ==
  /\ u1 \in {Unit(d) : d \in AccessSeqs}
  /\ u2 \in {Unit(d) : d \in AccessSeqs}
  /\ ctl \in Resources
  /\ w1 = NoSystem /\ w2 = NoSystem
  /\ sigTicks = 0
  /\ DynIdle

\* u1.pausable(g)
Wrap1(g) ==
  /\ w1 = NoSystem
  /\ w1' = pausable(u1, ctl, g)
  /\ UNCHANGED <<u1, u2, ctl, w2, sigTicks>>
  /\ UNCHANGED dynVars

\* u2.pausable(g)
Wrap2(g) ==
  /\ w2 = NoSystem
  /\ w2' = pausable(u2, ctl, g)
  /\ UNCHANGED <<u1, u2, ctl, w1, sigTicks>>
  /\ UNCHANGED dynVars

\* a dispatch of the two wrappers: run(&mut self, ..) assigns no field of self
SigDispatch ==
  /\ w1 # NoSystem /\ w2 # NoSystem
  /\ sigTicks < MaxTicks
  /\ sigTicks' = sigTicks + 1
  /\ UNCHANGED <<u1, u2, ctl, w1, w2>>
  /\ UNCHANGED dynVars

NextSig ==
  \/ \E g \in GuardValues(ctl) : Wrap1(g)
  \/ \E g \in GuardValues(ctl) : Wrap2(g)
  \/ SigDispatch

SpecSig == InitSig /\ [][NextSig]_vars

\* ------------------------------------------------------------ properties
Wrappers == {i \in Sys : systems[i].kind = "Pausable"}
\* every system of the dispatch has run and dispatch is about to return
AllDone == dispatching /\ ~panicked /\ \A i \in Sys : pc[i] = "done"
IsPairBuild ==
  /\ Len(systems) = 2 /\ Wrappers = {2}
  /\ systems[1].kind = "AddNumber" /\ systems[2].system.kind = "AddNumber"
IsTwoBuild ==
  /\ Len(systems) = 2 /\ Wrappers = {1, 2}
  /\ systems[1].V = systems[2].V /\ systems[1].value # systems[2].value
\* what the wrapped AddNumber of wrapper i adds when the control value is v
Gated(i, v) == IF systems[i].value = v THEN systems[i].system.n ELSE 0

\* C1: in every invocation the wrapper calls its wrapped system once when the
\* control value it reads equals the guard and not at all otherwise, whatever
\* happened in earlier ticks; so the calls made so far equal the number of
\* invocations that read a control value equal to the guard, and every wrapper
\* is invoked in every tick that completes.
C1_RunsIffEqual ==
  \A i \in Wrappers :
    /\ execs[i] = matches[i]
    /\ inv[i].ran => inv[i].calls = (IF inv[i].ctl = systems[i].value THEN 1 ELSE 0)
    /\ AllDone => inv[i].ran
    /\ execs[i] <= ticks + 1
C1_Witness ==
  \E i \in Wrappers : ticks >= 2 /\ execs[i] >= 1 /\ execs[i] < ticks /\ ~dispatching

\* C2: the wrapper's declared read set is the wrapped system's read set plus
\* the control resource and its write set is the wrapped system's write set,
\* for every user system and control type, and the declaration stays what it
\* was at construction across dispatches.
C2_Signature ==
  /\ [](w1 # NoSystem =>
          /\ Reads(w1) = Reads(u1) \cup {ctl}
          /\ Writes(w1) = Writes(u1))
  /\ [][w1 # NoSystem => SystemData(w1') = SystemData(w1)]_vars
C2_Witness ==
  /\ w1 # NoSystem /\ sigTicks >= 1
  /\ Writes(u1) # {} /\ ctl \notin Reads(u1) /\ ctl \notin Writes(u1)

\* C3 as stated: in the doc test's build one tick under the default control
\* value leaves the counter at 1, and setting the control to Enabled and
\* ticking again leaves it at 1+2.
C3_Original ==
  (systems = DocBuild("Enabled") /\ ~dispatching /\ ~panicked) =>
    /\ trace = <<"D">> => res["u32"] = 1
    /\ trace = <<"D", "E", "D">> => res["u32"] = 1 + 2
\* C3: one tick under the default control value leaves the counter at 1;
\* setting the control to Enabled and ticking again leaves it at 1 + (1+2);
\* it is 1+2 when the counter is reset to 0 before the second tick, as the
\* doc test does.
C3_Scenario1 ==
  (systems = DocBuild("Enabled") /\ ~dispatching /\ ~panicked) =>
    /\ trace = <<"D">> => res["u32"] = 1
    /\ trace = <<"D", "E", "D">> => res["u32"] = 1 + (1 + 2)
    /\ trace = <<"D", "R", "E", "D">> => res["u32"] = 1 + 2
C3_Witness ==
  /\ systems = DocBuild("Enabled") /\ ~dispatching /\ ~panicked
  /\ trace = <<"D", "E", "D">>

\* C4 as stated: a dispatch of the unwrapped adder of a and the wrapped adder
\* of b that starts with the counter at c ends with c + a, plus b when the
\* control value equals the guard, in every order of the two systems.
C4_Original ==
  (IsPairBuild /\ AllDone) =>
    res["u32"] = tickStart["u32"] + systems[1].n + Gated(2, tickStart["State"])
\* C4: the same, provided the sum does not exceed the largest u32; within
\* that range the dispatch does not panic either.
C4_DispatchSum ==
  (IsPairBuild /\ dispatching
     /\ tickStart["u32"] + systems[1].n + Gated(2, tickStart["State"]) <= WordMax) =>
    /\ ~panicked
    /\ AllDone =>
         res["u32"] = tickStart["u32"] + systems[1].n + Gated(2, tickStart["State"])
C4_Witness ==
  /\ IsPairBuild /\ AllDone
  /\ tickStart["State"] = systems[2].value
  /\ tickStart["u32"] > 0
  /\ inv[2].before = tickStart
  /\ res["u32"] = tickStart["u32"] + systems[1].n + systems[2].system.n

\* C5 as stated: of two wrappers with different guards on the same control
\* resource, exactly one calls its wrapped system in every tick, the one whose
\* guard equals the control value.
C5_Original ==
  (IsTwoBuild /\ AllDone) =>
    /\ Cardinality({i \in Wrappers : inv[i].calls = 1}) = 1
    /\ \A i \in Wrappers : inv[i].calls = 1 => systems[i].value = tickStart["State"]
\* C5: only the wrapper whose guard equals the control value calls its wrapped
\* system, so at most one of the two produces its side effect: exactly one
\* when the control value is one of the two guards, none when it is neither.
C5_AtMostOne ==
  (IsTwoBuild /\ AllDone) =>
    /\ \A i \in Wrappers : inv[i].calls = 1 <=> systems[i].value = tickStart["State"]
    /\ \A i \in Wrappers : inv[i].calls \in {0, 1}
    /\ Cardinality({i \in Wrappers : inv[i].calls = 1})
         = (IF tickStart["State"] \in {systems[1].value, systems[2].value} THEN 1 ELSE 0)
    /\ res["u32"] = (tickStart["u32"] + Gated(1, tickStart["State"])
                       + Gated(2, tickStart["State"])) % (WordMax + 1)
C5_Witness ==
  /\ IsTwoBuild /\ AllDone
  /\ inv[2].calls = 1 /\ inv[1].calls = 0
  /\ res["u32"] # tickStart["u32"]

\* C6: a wrapper is never running while a system that declares a write of the
\* control resource is running, and the control value it compares is the one
\* committed by the previous tick or, when a writer of this tick finished
\* before it, the writer's final value.
C6_ControlRead ==
  /\ \A i \in Wrappers : \A j \in Sys \ {i} :
       systems[i].V \in Writes(systems[j]) => ~(pc[i] \in Busy /\ pc[j] \in Busy)
  /\ \A i \in Wrappers :
       inv[i].ran => (~inv[i].writerBusy /\ inv[i].ctl = inv[i].commit)
C6_Witness ==
  \E i \in Wrappers : \E j \in Sys \ {i} :
    /\ systems[i].V \in Writes(systems[j])
    /\ inv[i].ran /\ inv[j].ran
    /\ inv[i].ctl # tickStart["State"]
    /\ inv[i].eq

\* C7: a tick of a wrapper around a system without side effects ends with
\* the store it started with, whether or not the guard matched, so running
\* it again gives the same store; the wrapper's fields are never modified.
C7_Idempotent ==
  /\ [](\A i \in Wrappers :
          (systems[i].system = AddNumber(0) /\ inv[i].ran) =>
             /\ inv[i].after = inv[i].before
             /\ (Len(systems) = 1 /\ AllDone) => res = tickStart)
  /\ [][systems' = systems]_vars
C7_Witness ==
  /\ Len(systems) = 1 /\ systems[1] = pausable(AddNumber(0), "State", "Enabled")
  /\ AllDone /\ ticks >= 2
  /\ inv[1].eq /\ execs[1] >= 1 /\ execs[1] < ticks + 1

\* C8: a wrapper invocation that finds the control value different from the
\* guard changes no resource; no wrapper invocation changes the control
\* resource; whatever an invocation changes is what the wrapped system's run
\* changes.
C8_Frame ==
  [][\A i \in Wrappers :
       (pc[i] = "running" /\ pc'[i] = "done") =>
          /\ systems[i].value # res[systems[i].V] => res' = res
          /\ res'[systems[i].V] = res[systems[i].V]
          /\ res' # res => res' = System_run(systems[i].system, res).res]_vars
C8_Witness ==
  \E i \in Wrappers :
    /\ inv[i].ran /\ ~inv[i].eq
    /\ inv[i].ctl = "Suspended"
    /\ inv[i].before["u32"] > 0

\* C9: the outcome of a wrapper invocation is the outcome of its wrapped
\* system when the guard matched, a failure included, and the failure leaves
\* dispatch; the wrapped system is called at most once per invocation, and an
\* invocation that finds the control value different from the guard cannot
\* fail.
C9_FailurePropagates ==
  \A i \in Wrappers :
    inv[i].ran =>
      /\ inv[i].calls <= 1
      /\ inv[i].ctl # systems[i].value => (inv[i].outcome = "ok" /\ inv[i].calls = 0)
      /\ inv[i].ctl = systems[i].value => (inv[i].outcome = inv[i].expect /\ inv[i].calls = 1)
      /\ inv[i].outcome = "panic" => panicked
C9_Witness ==
  \E i \in Wrappers : inv[i].ran /\ inv[i].outcome = "panic" /\ panicked

\* C10 as stated: two wrappers on the same control resource whose wrapped
\* systems do not conflict do not conflict, and against a system that does
\* not write the control resource the wrapper conflicts exactly when its
\* wrapped system does.
C10_Original ==
  (w1 # NoSystem /\ w2 # NoSystem) =>
    /\ ~Conflict(u1, u2) => ~Conflict(w1, w2)
    /\ \A x \in {u2, w2} : ctl \notin Writes(x) => (Conflict(w1, x) <=> Conflict(u1, x))
\* C10: the same, for wrapped systems that do not write the control resource;
\* the wrapper declares nothing but the control read beyond its wrapped system.
C10_OneDependency ==
  (w1 # NoSystem /\ w2 # NoSystem) =>
    /\ (~Conflict(u1, u2) /\ ctl \notin Writes(u1) /\ ctl \notin Writes(u2))
         => ~Conflict(w1, w2)
    /\ \A x \in {u2, w2} : ctl \notin Writes(x) => (Conflict(w1, x) <=> Conflict(u1, x))
    /\ Reads(w1) \ Reads(u1) \subseteq {ctl} /\ Writes(w1) = Writes(u1)
C10_Witness ==
  /\ w1 # NoSystem /\ w2 # NoSystem
  /\ Writes(u1) # {} /\ Writes(u2) # {}
  /\ ~Conflict(u1, u2) /\ ~Conflict(w1, w2)

====
